---- MODULE Spec2Model ----
(***************************************************************************)
(* CloudMisScan dashboard front-end: the /api/dashboard proxy route, the   *)
(* dashboard page's fetch lifecycle and render, and the presentation       *)
(* mappers (trend formatter, resource graph projection, colour mappings).  *)
(*                                                                         *)
(* JavaScript values are encoded as follows.  A string is a TLA+ string,   *)
(* or, where the code looks inside it (query strings, toLowerCase), a      *)
(* sequence of one-character strings.  undefined and null are the          *)
(* sentinels UNDEF and NULL.  A JSON value is a record tagged by t.        *)
(***************************************************************************)
EXTENDS Integers, Sequences, FiniteSets, TLC

VARIABLES
    \* ---- proxy route (src/unnamed/part_006) ----
    env,            \* process.env.NEXT_PUBLIC_API_URL
    pxPc,           \* position of the GET handler
    pxReq,          \* the request's query: is `days` present, and its raw text
    pxCalls,        \* upstream URLs fetched while serving the current request
    pxUp,           \* what the upstream fetch settled with
    pxRes,          \* the NextResponse the handler returned
    pxThrew,        \* the handler let an exception escape to its caller
    \* ---- dashboard page Home (misconfig-details.tsx 226-399) ----
    mounted,        \* the mount effect has run
    data,           \* useState<DashboardData | null>(null)
    loading,        \* useState(true)
    error,          \* useState<string | null>(null)
    timeRange,      \* useState(30)
    tab,            \* selected index of Tab.Group
    inflight,       \* the fetchData calls that have not settled yet
    nStarted,       \* fetchData calls started so far
    \* ---- TrendChart (TrendChart.tsx) ----
    trPc, trIn, trOut,
    \* ---- ResourceRelationships (src/unnamed/part_008) ----
    grPc, grIn, grOut,
    \* ---- colour mappings ----
    clPc, clFn, clIn, clOut,
    \* ---- pie label of SecurityOverview (src/unnamed/part_003) ----
    lbPc,           \* position of the label call
    lbSlice,        \* the slice's name and value
    lbTotal,        \* the sum of the values of all slices of the pie
    lbOut,          \* what renderCustomizedLabel returned
    \* ---- report generation (ReportGenerator.tsx, handleGenerateReport) ----
    rpLoading,      \* useState(false) of the mounted ReportGenerator
    rpInflight,     \* the handleGenerateReport calls that have not settled yet
    rpDownloads,    \* the files whose download was triggered
    rpErrors,       \* number of console.error calls of the report path
    nReports,       \* clicks on Generate Report so far
    \* ---- derived data of the panels' components ----
    rdOut,          \* what each mapper computed when its component last rendered
    \* ---- MisconfigTable (src/unnamed/part_005) ----
    selectedMisconfig,  \* useState<Misconfiguration | null>(null)
    showDetails,        \* useState(false)
    mtClicks            \* the rows whose View Details was clicked, in order

pxVars == <<env, pxPc, pxReq, pxCalls, pxUp, pxRes, pxThrew>>

pgVars == <<mounted, data, loading, error, timeRange, tab, inflight, nStarted>>
trVars == <<trPc, trIn, trOut>>
grVars == <<grPc, grIn, grOut>>
clVars == <<clPc, clFn, clIn, clOut>>
lbVars == <<lbPc, lbSlice, lbTotal, lbOut>>
rpVars == <<rpLoading, rpInflight, rpDownloads, rpErrors, nReports>>
rdVars == <<rdOut>>
mtVars == <<selectedMisconfig, showDetails, mtClicks>>

\* What the steps of each part leave alone.
nonPxVars == <<pgVars, trVars, grVars, clVars, lbVars, rpVars, rdVars, mtVars>>
nonPgVars == <<pxVars, trVars, grVars, clVars, lbVars, rdVars, mtVars>>
nonTrVars == <<pxVars, pgVars, grVars, clVars, lbVars, rpVars, rdVars, mtVars>>
nonGrVars == <<pxVars, pgVars, trVars, clVars, lbVars, rpVars, rdVars, mtVars>>
nonClVars == <<pxVars, pgVars, trVars, grVars, lbVars, rpVars, rdVars, mtVars>>
nonLbVars == <<pxVars, pgVars, trVars, grVars, clVars, rpVars, rdVars, mtVars>>
nonRpVars == <<pxVars, trVars, grVars, clVars, lbVars, rdVars, mtVars>>
nonRdVars == <<pxVars, pgVars, trVars, grVars, clVars, lbVars, rpVars, mtVars>>
nonMtVars == <<pxVars, pgVars, trVars, grVars, clVars, lbVars, rpVars, rdVars>>

vars == <<pxVars, pgVars, trVars, grVars, clVars, lbVars, rpVars, rdVars, mtVars>>

UNDEF == "<undefined>"
NULL == "<null>"

\* JavaScript truthiness of a string-or-undefined-or-null value.
Truthy(v) == v # UNDEF /\ v # NULL /\ v # ""

\* a || b
OrElse(a, b) == IF Truthy(a) THEN a ELSE b

(***************************************************************************)
(* Bounds                                                                  *)
(***************************************************************************)
MaxDaysLen == 2
MaxSeriesLen == 2
MaxRels == 2
MaxResources == 2
MaxFetches == 3
MaxTotal == 200
MaxReports == 2
MaxClicks == 4

(***************************************************************************)
(* Proxy route: GET /api/dashboard                                         *)
(***************************************************************************)
EnvValues == {UNDEF, "", "http://backend:8000"}

\* const API_URL = process.env.NEXT_PUBLIC_API_URL || 'http://localhost:5000'
API_URL == OrElse(env, "http://localhost:5000")

\* Raw (still percent-encoded) characters a days value is written with.
RawTokens == {"3", "0", "9", "%26"}

RawValues == UNION {[1..n -> RawTokens] : n \in 0..MaxDaysLen}

\* The requests: ?days=<raw>, or no days parameter at all.
Requests == {[present |-> FALSE, raw |-> <<>>]}
              \cup {[present |-> TRUE, raw |-> r] : r \in RawValues}

\* URLSearchParams percent-decoding of one raw character.
DecodeToken(t) == IF t = "%26" THEN "&" ELSE t

\* searchParams.get('days'): null when absent, else the decoded value.
SearchParamsGet(req) ==
    IF req.present
    THEN [isNull |-> FALSE, chars |-> [i \in 1..Len(req.raw) |-> DecodeToken(req.raw[i])]]
    ELSE [isNull |-> TRUE, chars |-> <<>>]

\* Mutant: a value that is none of 7, 30 and 90 is replaced by the default.
DaysOf_Validated(req) ==
    LET got == SearchParamsGet(req)
    IN  IF got.isNull \/ got.chars \notin {<<"7">>, <<"3", "0">>, <<"9", "0">>}
        THEN <<"3", "0">> ELSE got.chars

\* const days = searchParams.get('days') || '30'
DaysOf(req) ==
    LET got == SearchParamsGet(req)
    IN  IF got.isNull \/ got.chars = <<>> THEN <<"3", "0">> ELSE got.chars

\* Mutant: the days parameter is ignored and the default always sent.
UpstreamUrl_FixedDays(req) == <<API_URL, "/api/dashboard", "?", "days", "=", "3", "0">>

\* `${API_URL}/api/dashboard?days=${days}`: the value is interpolated as it
\* is, with no encodeURIComponent.
UpstreamUrl(req) == <<API_URL, "/api/dashboard", "?", "days", "=">> \o DaysOf(req)

Statuses == {200, 404, 503}

\* response.ok
Ok(status) == status >= 200 /\ status <= 299

ErrorFields == {UNDEF, "", "upstream down"}

\* Bodies an upstream response can carry: text that is not JSON (or no body),
\* JSON null, a JSON string, or a JSON object with optional `error` and
\* `detail` members.
Bodies ==
    {[t |-> "nonjson"], [t |-> "null"], [t |-> "str", s |-> "oops"]}
      \cup {[t |-> "obj", error |-> e, detail |-> d] :
              e \in ErrorFields, d \in {UNDEF, "Service Unavailable"}}

\* await response.json(): rejects when the body is not JSON.
JsonParses(body) == body.t # "nonjson"

\* errorData.error: a TypeError on null, undefined on a non-object.
ReadErrorThrows(body) == body.t = "null"

ReadError(body) == IF body.t = "obj" THEN body.error ELSE UNDEF

InternalError == [status |-> 500, body |-> [t |-> "obj", error |-> "Internal server error", detail |-> UNDEF]]

\* Mutant: the `{ status: response.status }` option is left out of the error reply.
RespondTo_DefaultStatus(status, body) ==
    IF ~JsonParses(body) THEN InternalError
    ELSE IF Ok(status) THEN [status |-> 200, body |-> body]
    ELSE IF ReadErrorThrows(body) THEN InternalError
    ELSE [status |-> 200,
          body |-> [t |-> "obj",
                    error |-> OrElse(ReadError(body), "Failed to fetch dashboard data"),
                    detail |-> UNDEF]]

\* The response the handler returns once the upstream fetch resolved with
\* (status, body): lines 16-25, and the catch of lines 26-31 for a throw.
RespondTo(status, body) ==
    IF ~JsonParses(body) THEN InternalError
    ELSE IF Ok(status) THEN [status |-> 200, body |-> body]
    ELSE IF ReadErrorThrows(body) THEN InternalError
    ELSE [status |-> status,
          body |-> [t |-> "obj",
                    error |-> OrElse(ReadError(body), "Failed to fetch dashboard data"),
                    detail |-> UNDEF]]

NoRes == [status |-> 0, body |-> [t |-> "none"]]
NoUp == [kind |-> "none"]

\* Mutant: no try/catch, a rejected fetch escapes the handler.
CatchAll_Rethrow == [threw |-> TRUE, res |-> NoRes]

\* catch (error) { ... return NextResponse.json({error: 'Internal server error'}, {status: 500}) }
CatchAll == [threw |-> FALSE, res |-> InternalError]

PxInit ==
    /\ env \in EnvValues
    /\ pxPc = "idle"
    /\ pxReq = [present |-> FALSE, raw |-> <<>>]
    /\ pxCalls = <<>>
    /\ pxUp = NoUp
    /\ pxRes = NoRes
    /\ pxThrew = FALSE

\* A request arrives; the handler runs up to `await fetch(...)`.
PxRequest(req) ==
    /\ pxPc = "idle"
    /\ pxReq' = req
    /\ pxCalls' = Append(pxCalls, UpstreamUrl(req))
    /\ pxPc' = "awaitFetch"
    /\ UNCHANGED <<env, pxUp, pxRes, pxThrew, nonPxVars>>

\* The fetch rejects (transport failure): control goes to the catch block.
PxFetchReject ==
    /\ pxPc = "awaitFetch"
    /\ pxUp' = [kind |-> "rejected"]
    /\ pxRes' = CatchAll.res
    /\ pxThrew' = CatchAll.threw
    /\ pxPc' = "done"
    /\ UNCHANGED <<env, pxReq, pxCalls, nonPxVars>>

\* The fetch resolves; the handler goes on to `await response.json()`.
PxFetchResolve(status, body) ==
    /\ pxPc = "awaitFetch"
    /\ pxUp' = [kind |-> "resolved", status |-> status, body |-> body]
    /\ pxPc' = "awaitJson"
    /\ UNCHANGED <<env, pxReq, pxCalls, pxRes, pxThrew, nonPxVars>>

\* response.json() settles and the handler returns.
PxJsonSettle ==
    /\ pxPc = "awaitJson"
    /\ pxRes' = RespondTo(pxUp.status, pxUp.body)
    /\ pxThrew' = FALSE
    /\ pxPc' = "done"
    /\ UNCHANGED <<env, pxReq, pxCalls, pxUp, nonPxVars>>

\* The route is ready for the next request.
PxNextRequest ==
    /\ pxPc = "done"
    /\ pxPc' = "idle"
    /\ pxCalls' = <<>>
    /\ pxUp' = NoUp
    /\ pxRes' = NoRes
    /\ pxThrew' = FALSE
    /\ UNCHANGED <<env, pxReq, nonPxVars>>

PxNext ==
    \/ \E req \in Requests : PxRequest(req)
    \/ PxFetchReject
    \/ \E s \in Statuses, b \in Bodies : PxFetchResolve(s, b)
    \/ PxJsonSettle
    \/ PxNextRequest


(***************************************************************************)
(* TrendChart: the trend formatter (formattedData)                         *)
(***************************************************************************)
Undef == [t |-> "undef"]
Null == [t |-> "null"]
Arr(items) == [t |-> "arr", items |-> items]

\* The date members a point can carry: absent, empty, three ISO-8601
\* shaped strings (one of them not a calendar date) and free text.
DateValues == {UNDEF, "", "2024-01-15", "2024-12-31", "2024-02-30", "not-a-date"}

\* The value members a point can carry: absent, numbers, a numeric string.
ValueValues == {Undef, [t |-> "num", v |-> 0], [t |-> "num", v |-> 5], [t |-> "str", s |-> "5"]}

\* The elements a series can hold: objects, and JSON null.
Points == {Null} \cup {[t |-> "obj", date |-> d, value |-> v] : d \in DateValues, v \in ValueValues}

\* The year, month and day fields date-fns reads from a string of the shape
\* YYYY-MM-DD; isIso is FALSE when the string has no such shape.
IsoFields(str) ==
    CASE str = "2024-01-15" -> [isIso |-> TRUE, y |-> 2024, m |-> 1, d |-> 15]
      [] str = "2024-12-31" -> [isIso |-> TRUE, y |-> 2024, m |-> 12, d |-> 31]
      [] str = "2024-02-30" -> [isIso |-> TRUE, y |-> 2024, m |-> 2, d |-> 30]
      [] OTHER -> [isIso |-> FALSE, y |-> 0, m |-> 0, d |-> 0]

IsLeapYear(y) == (y % 400 = 0) \/ (y % 4 = 0 /\ y % 100 # 0)

DaysInMonth(y, m) ==
    IF m = 2 THEN (IF IsLeapYear(y) THEN 29 ELSE 28)
    ELSE IF m \in {4, 6, 9, 11} THEN 30 ELSE 31

\* date-fns parseISO: a Date, or Invalid Date when the string is not an
\* ISO-8601 date or names no calendar day.
ParseISO(str) ==
    LET f == IsoFields(str)
    IN  IF f.isIso /\ f.m \in 1..12 /\ f.d \in 1..DaysInMonth(f.y, f.m)
        THEN [valid |-> TRUE, y |-> f.y, m |-> f.m, d |-> f.d]
        ELSE [valid |-> FALSE, y |-> 0, m |-> 0, d |-> 0]

MonthNames == <<"Jan", "Feb", "Mar", "Apr", "May", "Jun", "Jul", "Aug", "Sep", "Oct", "Nov", "Dec">>

\* date-fns format(date, 'MMM d, yyyy'): throws RangeError on Invalid Date.
Format(date) ==
    IF date.valid
    THEN [threw |-> FALSE,
          text |-> MonthNames[date.m] \o " " \o ToString(date.d) \o ", " \o ToString(date.y)]
    ELSE [threw |-> TRUE, text |-> ""]

\* The callback of data.map (lines 25-34) on one element: the element is
\* dropped (null), kept with its date formatted, or the callback throws.
MapPoint(item) ==
    IF item.t = "null" THEN [threw |-> TRUE, keep |-> FALSE, point |-> Null]
    ELSE IF ~Truthy(item.date) \/ item.value.t # "num"
    THEN [threw |-> FALSE, keep |-> FALSE, point |-> Null]
    ELSE LET f == Format(ParseISO(item.date))
         IN  IF f.threw
             THEN [threw |-> TRUE, keep |-> FALSE, point |-> Null]
             ELSE [threw |-> FALSE, keep |-> TRUE,
                   point |-> [date |-> f.text, value |-> item.value.v]]

\* .filter(Boolean) of the mapped elements.
RECURSIVE KeptPoints(_)
KeptPoints(items) ==
    IF items = <<>> THEN <<>>
    ELSE LET r == MapPoint(Head(items))
         IN  (IF r.keep THEN <<r.point>> ELSE <<>>) \o KeptPoints(Tail(items))

\* Mutant: neither the `data = []` default nor the guard of line 20.
FormatSeries_Unguarded(d) ==
    IF d.t # "arr" THEN [threw |-> TRUE, out |-> <<>>]
    ELSE IF \E i \in 1..Len(d.items) : MapPoint(d.items[i]).threw
    THEN [threw |-> TRUE, out |-> <<>>]
    ELSE [threw |-> FALSE, out |-> KeptPoints(d.items)]

\* formattedData for the `data` prop: undefined takes the default [], a
\* value that is not an array gives [], an array is mapped and filtered.
FormatSeries(d) ==
    LET dflt == IF d.t = "undef" THEN Arr(<<>>) ELSE d
    IN  IF dflt.t # "arr" THEN [threw |-> FALSE, out |-> <<>>]
        ELSE IF \E i \in 1..Len(dflt.items) : MapPoint(dflt.items[i]).threw
        THEN [threw |-> TRUE, out |-> <<>>]
        ELSE [threw |-> FALSE, out |-> KeptPoints(dflt.items)]

\* What TrendChart renders for its `data` prop.
TrendChart(d) ==
    LET dflt == IF d.t = "undef" THEN Arr(<<>>) ELSE d
    IN  IF FormatSeries(d).threw THEN "throws"
        ELSE IF dflt.t # "arr" \/ dflt.items = <<>> THEN "fallback"
        ELSE "content"

SeriesOfLen(n) == {Arr(items) : items \in [1..n -> Points]}

TrendInputs == {Undef, Null} \cup UNION {SeriesOfLen(n) : n \in 0..MaxSeriesLen}

NoOut == [threw |-> FALSE, out |-> <<>>]

TrIdle ==
    /\ trPc = "idle"
    /\ trIn = Undef
    /\ trOut = NoOut

TrInit ==
    /\ trPc = "props"
    /\ trIn \in TrendInputs
    /\ trOut = NoOut

\* The component renders: useMemo computes formattedData from the data prop.
TrFormat ==
    /\ trPc = "props"
    /\ trOut' = FormatSeries(trIn)
    /\ trPc' = "rendered"
    /\ UNCHANGED <<trIn, nonTrVars>>

TrNext == TrFormat

(***************************************************************************)
(* Strings the code looks inside: sequences of one-character strings       *)
(***************************************************************************)
LowerLetters == <<"a", "b", "c", "d", "e", "f", "g", "h", "i", "j", "k", "l", "m",
                  "n", "o", "p", "q", "r", "s", "t", "u", "v", "w", "x", "y", "z">>
UpperLetters == <<"A", "B", "C", "D", "E", "F", "G", "H", "I", "J", "K", "L", "M",
                  "N", "O", "P", "Q", "R", "S", "T", "U", "V", "W", "X", "Y", "Z">>

LowerChar(c) ==
    IF \E i \in 1..Len(UpperLetters) : UpperLetters[i] = c
    THEN LowerLetters[CHOOSE i \in 1..Len(UpperLetters) : UpperLetters[i] = c]
    ELSE c

UpperChar(c) ==
    IF \E i \in 1..Len(LowerLetters) : LowerLetters[i] = c
    THEN UpperLetters[CHOOSE i \in 1..Len(LowerLetters) : LowerLetters[i] = c]
    ELSE c

\* String.prototype.toLowerCase
ToLowerCase(str) == [i \in 1..Len(str) |-> LowerChar(str[i])]

ToUpperCase(str) == [i \in 1..Len(str) |-> UpperChar(str[i])]

Capitalize(str) == [i \in 1..Len(str) |-> IF i = 1 THEN UpperChar(str[i]) ELSE LowerChar(str[i])]

(***************************************************************************)
(* ResourceRelationships: the graph projection (graphData)                 *)
(***************************************************************************)
\* function getResourceColor(type)
getResourceColor(type) ==
    LET lower == ToLowerCase(type)
    IN  CASE lower = <<"e", "c", "2">> -> "#ff9900"
          [] lower = <<"s", "3">> -> "#e31a1c"
          [] lower = <<"r", "d", "s">> -> "#33a02c"
          [] lower = <<"i", "a", "m">> -> "#1f78b4"
          [] OTHER -> "#6a3d9a"

\* resources.map(resource => ({id, name, val: 1, color}))
GraphNode(resource) ==
    [id |-> resource.id, name |-> resource.name, val |-> 1,
     color |-> getResourceColor(resource.type)]

\* Mutant: a link whose target is no node's id is dropped.
RECURSIVE GraphLinks_DropDangling(_)
GraphLinks_DropDangling(resources) ==
    IF resources = <<>> THEN <<>>
    ELSE LET r == Head(resources)
             all == [i \in 1..Len(r.relationships.items) |->
                       [source |-> r.id, target |-> r.relationships.items[i]]]
         IN  SelectSeq(all, LAMBDA l : l.target \in {"a", "b"})
               \o GraphLinks_DropDangling(Tail(resources))

\* resources.flatMap(resource => resource.relationships.map(targetId =>
\* ({source: resource.id, target: targetId})))
RECURSIVE GraphLinks(_)
GraphLinks(resources) ==
    IF resources = <<>> THEN <<>>
    ELSE LET r == Head(resources)
         IN  [i \in 1..Len(r.relationships.items) |->
                [source |-> r.id, target |-> r.relationships.items[i]]]
               \o GraphLinks(Tail(resources))

NoGraph == [threw |-> FALSE, nodes |-> <<>>, links |-> <<>>]

\* graphData for the `resources` prop; .map on undefined is a TypeError.
GraphData(resources) ==
    IF resources.t # "arr" THEN [threw |-> TRUE, nodes |-> <<>>, links |-> <<>>]
    ELSE IF \E i \in 1..Len(resources.items) : resources.items[i].relationships.t # "arr"
    THEN [threw |-> TRUE, nodes |-> <<>>, links |-> <<>>]
    ELSE [threw |-> FALSE,
          nodes |-> [i \in 1..Len(resources.items) |-> GraphNode(resources.items[i])],
          links |-> GraphLinks(resources.items)]

\* What ResourceRelationships renders for its `resources` prop.
ResourceRelationships(resources) ==
    IF GraphData(resources).threw THEN "throws" ELSE "content"

ResourceIds == {"a", "b"}

\* Relationship entries: ids of resources, and an id no resource has.
TargetIds == {"a", "zz"}

RelationshipValues ==
    {Undef} \cup {Arr(items) : items \in UNION {[1..n -> TargetIds] : n \in 0..MaxRels}}

NameOf(id) == IF id = "a" THEN "web-server-01" ELSE "data-backup-bucket"

TypeOf(id) == IF id = "a" THEN <<"E", "C", "2">> ELSE <<"s", "3">>

GraphResources ==
    {[id |-> i, name |-> NameOf(i), type |-> TypeOf(i), relationships |-> r] :
        i \in ResourceIds, r \in RelationshipValues}

GraphInputs ==
    {Undef} \cup {Arr(items) : items \in UNION {[1..n -> GraphResources] : n \in 0..MaxResources}}

GrIdle ==
    /\ grPc = "idle"
    /\ grIn = Undef
    /\ grOut = NoGraph

GrInit ==
    /\ grPc = "props"
    /\ grIn \in GraphInputs
    /\ grOut = NoGraph

\* The component renders and builds graphData from the resources prop.
GrProject ==
    /\ grPc = "props"
    /\ grOut' = GraphData(grIn)
    /\ grPc' = "rendered"
    /\ UNCHANGED <<grIn, nonGrVars>>

GrNext == GrProject

(***************************************************************************)
(* Colour mappings                                                         *)
(***************************************************************************)
HIGH == <<"H", "I", "G", "H">>
MEDIUM == <<"M", "E", "D", "I", "U", "M">>
LOW == <<"L", "O", "W">>
Critical == <<"C", "r", "i", "t", "i", "c", "a", "l">>
High == <<"H", "i", "g", "h">>
Medium == <<"M", "e", "d", "i", "u", "m">>
Low == <<"L", "o", "w">>

\* Mutant: the switch has no default branch and returns undefined.
getSeverityColor_NoDefault(severity) ==
    CASE severity = HIGH -> "rose"
      [] severity = MEDIUM -> "amber"
      [] severity = LOW -> "emerald"
      [] OTHER -> UNDEF

\* getSeverityColor (ServiceMisconfigurations)
getSeverityColor(severity) ==
    CASE severity = HIGH -> "rose"
      [] severity = MEDIUM -> "amber"
      [] severity = LOW -> "emerald"
      [] OTHER -> "slate"

\* getSeverityIcon (ServiceMisconfigurations)
getSeverityIcon(severity) ==
    CASE severity = HIGH -> "ExclamationTriangleIcon"
      [] severity = MEDIUM -> "InformationCircleIcon"
      [] severity = LOW -> "CheckCircleIcon"
      [] OTHER -> "InformationCircleIcon"

\* getRiskLevelColor (MisconfigTable)
getRiskLevelColor(level) ==
    CASE level = Critical -> "bg-red-100 text-red-800"
      [] level = High -> "bg-blue-100 text-blue-800"
      [] level = Medium -> "bg-gray-100 text-gray-800"
      [] OTHER -> "bg-gray-100 text-gray-800"

\* getRiskBadgeVariant (Misconfigurations page)
getRiskBadgeVariant(risk) ==
    LET lower == ToLowerCase(risk)
    IN  CASE lower = ToLowerCase(Critical) -> "destructive"
          [] lower = ToLowerCase(High) -> "default"
          [] lower = ToLowerCase(Medium) -> "secondary"
          [] OTHER -> "outline"

ColorFns == {"getSeverityColor", "getRiskLevelColor", "getRiskBadgeVariant"}

ApplyColorFn(fn, str) ==
    CASE fn = "getSeverityColor" -> getSeverityColor(str)
      [] fn = "getRiskLevelColor" -> getRiskLevelColor(str)
      [] fn = "getRiskBadgeVariant" -> getRiskBadgeVariant(str)

\* Level names, and strings that name no level.
BaseWords == {HIGH, MEDIUM, LOW, Critical, <<"i", "n", "f", "o">>,
              <<"s", "e", "v", "e", "r", "e">>, <<"n", "/", "a">>, <<>>}

\* Each word as written, in lower case, in upper case and capitalised.
ColorInputs ==
    BaseWords \cup {ToLowerCase(w) : w \in BaseWords}
              \cup {ToUpperCase(w) : w \in BaseWords}
              \cup {Capitalize(w) : w \in BaseWords}

ClIdle ==
    /\ clPc = "idle"
    /\ clFn = "getSeverityColor"
    /\ clIn = <<>>
    /\ clOut = ""

ClInit ==
    /\ clPc = "call"
    /\ clFn \in ColorFns
    /\ clIn \in ColorInputs
    /\ clOut = ""

\* The mapping is applied to the string.
ClApply ==
    /\ clPc = "call"
    /\ clOut' = ApplyColorFn(clFn, clIn)
    /\ clPc' = "returned"
    /\ UNCHANGED <<clFn, clIn, nonClVars>>

ClNext == ClApply

(***************************************************************************)
(* SecurityOverview: the Risk Overview pie and its labels                  *)
(***************************************************************************)
\* const data = [...] (lines 6-11)
OverviewData ==
    <<[name |-> "Critical", value |-> 3, color |-> "#ef4444"],
      [name |-> "High", value |-> 8, color |-> "#f97316"],
      [name |-> "Medium", value |-> 15, color |-> "#eab308"],
      [name |-> "Low", value |-> 24, color |-> "#22c55e"]>>

\* data.reduce((sum, item) => sum + item.value, 0)
RECURSIVE SumValues(_)
SumValues(items) ==
    IF items = <<>> THEN 0 ELSE items[1].value + SumValues(Tail(items))

\* const total = ... (line 44), rendered as `{total} issues` (line 50)
OverviewTotal == SumValues(OverviewData)
OverviewHeader == ToString(OverviewTotal) \o " issues"

\* percent * 100 is a double.  Recharts passes percent = value / total, the
\* double nearest to the quotient, and the product differs from the exact
\* percentage by less than 1e-13, which moves the rounding only when the
\* exact percentage is a tie k/2 with k odd.  For these k (percentages 14.5,
\* 28.5, 56.5 and 57.5) the product falls just below the tie; at every other
\* tie, 4.5 included, it is the tie or just above it.
TiesBelow == {29, 57, 113, 115}

\* (percent * 100).toFixed(0): the nearest integer, the larger one at a tie,
\* as a decimal string.
ToFixed0(value, total) ==
    LET twice == (200 * value) \div total
        isTie == (200 * value) % total = 0 /\ twice % 2 = 1
    IN  IF isTie /\ twice \in TiesBelow
        THEN ToString((twice - 1) \div 2)
        ELSE ToString((200 * value + total) \div (2 * total))

\* Number(percentageValue) of a string of decimal digits.
NumberOf(str) == CHOOSE n \in 0..100 : ToString(n) = str

\* Mutant: the label is skipped below 5% of the unrounded share.
renderCustomizedLabel_Unrounded(name, value, total) ==
    LET percentageValue == ToFixed0(value, total)
    IN  IF 100 * value < 5 * total
        THEN [t |-> "null"]
        ELSE [t |-> "text",
              text |-> ToString(value) \o " " \o name \o " (" \o percentageValue \o "%)"]

\* renderCustomizedLabel (lines 14-41), for a slice of the given name and
\* value in a pie whose values sum to total.
renderCustomizedLabel(name, value, total) ==
    LET percentageValue == ToFixed0(value, total)
    IN  IF NumberOf(percentageValue) < 5
        THEN [t |-> "null"]
        ELSE [t |-> "text",
              text |-> ToString(value) \o " " \o name \o " (" \o percentageValue \o "%)"]

SliceNames == {OverviewData[i].name : i \in 1..Len(OverviewData)}

NoLabel == [t |-> "none"]

LbIdle ==
    /\ lbPc = "idle"
    /\ lbSlice = [name |-> "Critical", value |-> 0]
    /\ lbTotal = 1
    /\ lbOut = NoLabel

\* A pie whose values sum to lbTotal, and one of its slices.
LbInit ==
    /\ lbPc = "call"
    /\ lbTotal \in 1..MaxTotal
    /\ lbSlice \in [name : SliceNames, value : 0..lbTotal]
    /\ lbOut = NoLabel

\* Recharts calls the label renderer for the slice.
LbRender ==
    /\ lbPc = "call"
    /\ lbOut' = renderCustomizedLabel(lbSlice.name, lbSlice.value, lbTotal)
    /\ lbPc' = "returned"
    /\ UNCHANGED <<lbSlice, lbTotal, nonLbVars>>

LbNext == LbRender

(***************************************************************************)
(* Components of the Overview tab                                          *)
(***************************************************************************)
\* ComplianceOverview: `!data || 'error' in data` renders the fallback.
ComplianceOverview(c) ==
    IF c.t # "obj" THEN "fallback"
    ELSE IF c.hasError THEN "fallback"
    ELSE "content"

\* RiskAssessment: reads metrics.high, metrics.medium, metrics.low with no
\* guard; a property read on undefined is a TypeError.
RiskAssessment(metrics) ==
    IF metrics.t # "obj" THEN "throws" ELSE "content"

\* Mutant: the donut is drawn from the hard-coded counts of the Risk
\* Overview card instead of the metrics it is given.
RiskSegments_Mock(metrics) ==
    <<[name |-> "High Risk", value |-> OverviewData[1].value, color |-> "rose"],
      [name |-> "Medium Risk", value |-> OverviewData[2].value, color |-> "amber"],
      [name |-> "Low Risk", value |-> OverviewData[3].value, color |-> "emerald"]>>

\* The donut's data array (lines 14-18).
RiskSegments(metrics) ==
    <<[name |-> "High Risk", value |-> metrics.high, color |-> "rose"],
      [name |-> "Medium Risk", value |-> metrics.medium, color |-> "amber"],
      [name |-> "Low Risk", value |-> metrics.low, color |-> "emerald"]>>

\* resourcesList (lines 154-166) reads resource.misconfigurations.map for
\* every resource of every service.
ResourcesListThrows(services) ==
    \E e \in 1..Len(services.entries) :
        \E r \in 1..Len(services.entries[e].resources) :
            services.entries[e].resources[r].misconfigurations.t # "arr"

\* ServiceMisconfigurations: `services = {}` default, and the fallback when
\* there is no key.
ServiceMisconfigurations(services) ==
    IF services.t # "obj" THEN "fallback"
    ELSE IF services.entries = <<>> THEN "fallback"
    ELSE IF ResourcesListThrows(services) THEN "throws"
    ELSE "content"

(***************************************************************************)
(* Dashboard page: Home                                                    *)
(***************************************************************************)
TimeRanges == {7, 30, 90}

Finding == [type |-> "PUBLIC_ACCESS", severity |-> HIGH, description |-> "Public read access enabled"]

\* Resources of a snapshot: complete, and with relationships or
\* misconfigurations absent.
ResFull == [id |-> "a", resource_id |-> "i-01", name |-> "web-server-01", type |-> <<"E", "C", "2">>,
            relationships |-> Arr(<<"zz">>), misconfigurations |-> Arr(<<Finding>>)]
ResBare == [id |-> "b", resource_id |-> "bk-01", name |-> "data-backup-bucket", type |-> <<"s", "3">>,
            relationships |-> Undef, misconfigurations |-> Undef]

GoodPoint == [t |-> "obj", date |-> "2024-01-15", value |-> [t |-> "num", v |-> 5]]
BadDatePoint == [t |-> "obj", date |-> "not-a-date", value |-> [t |-> "num", v |-> 5]]

Metrics == [t |-> "obj", high |-> 3, medium |-> 8, low |-> 24]

\* The objects the backend can answer a ?days=d request with.  forDays
\* records which request the object answers.
Snapshot(kind, d) ==
    CASE kind = "full" ->
           [t |-> "obj", forDays |-> d,
            compliance |-> [t |-> "obj", hasError |-> FALSE],
            riskMetrics |-> Metrics,
            services |-> [t |-> "obj", entries |-> <<[service |-> "ec2", resources |-> <<ResFull>>]>>],
            resources |-> Arr(<<ResFull>>),
            trends |-> [t |-> "obj", overall |-> Arr(<<GoodPoint>>), ec2 |-> Undef]]
      [] kind = "empty" ->
           [t |-> "obj", forDays |-> d,
            compliance |-> Undef, riskMetrics |-> Undef, services |-> Undef,
            resources |-> Undef, trends |-> Undef]
      [] kind = "emptyCollections" ->
           [t |-> "obj", forDays |-> d,
            compliance |-> [t |-> "obj", hasError |-> TRUE],
            riskMetrics |-> Metrics,
            services |-> [t |-> "obj", entries |-> <<>>],
            resources |-> Arr(<<>>),
            trends |-> [t |-> "obj", overall |-> Arr(<<>>), ec2 |-> Arr(<<>>)]]
      [] kind = "bareResources" ->
           [t |-> "obj", forDays |-> d,
            compliance |-> [t |-> "obj", hasError |-> FALSE],
            riskMetrics |-> Metrics,
            services |-> Undef,
            resources |-> Arr(<<ResFull, ResBare>>),
            trends |-> Undef]
      [] kind = "bareServices" ->
           [t |-> "obj", forDays |-> d,
            compliance |-> [t |-> "obj", hasError |-> FALSE],
            riskMetrics |-> Metrics,
            services |-> [t |-> "obj", entries |-> <<[service |-> "s3", resources |-> <<ResBare>>]>>],
            resources |-> Arr(<<>>),
            trends |-> Undef]
      [] kind = "badTrend" ->
           [t |-> "obj", forDays |-> d,
            compliance |-> [t |-> "obj", hasError |-> FALSE],
            riskMetrics |-> Metrics,
            services |-> Undef,
            resources |-> Arr(<<>>),
            trends |-> [t |-> "obj", overall |-> Arr(<<GoodPoint, BadDatePoint>>), ec2 |-> Undef]]

SnapshotKinds == {"full", "empty", "emptyCollections", "bareResources", "bareServices", "badTrend"}

\* What a response body holds: text that is not JSON (or nothing), JSON
\* null, a JSON number, a JSON string, a JSON array, or a JSON object.
BodyKinds == {"nonjson", "null", "number", "string", "array"} \cup SnapshotKinds

BodyOf(kind, d) ==
    CASE kind = "nonjson" -> [t |-> "nonjson"]
      [] kind = "null" -> Null
      [] kind = "number" -> [t |-> "num", v |-> 0]
      [] kind = "string" -> [t |-> "str", s |-> "ok"]
      [] kind = "array" -> [t |-> "arr", items |-> <<>>, forDays |-> d]
      [] OTHER -> Snapshot(kind, d)

\* data.<name>; an array has none of the DashboardData members.
Field(obj, name) == IF obj.t = "obj" THEN obj[name] ELSE Undef

\* data.trends?.<name>
TrendsField(obj, name) ==
    LET tr == Field(obj, "trends")
    IN  IF tr.t = "obj" THEN tr[name] ELSE Undef

\* Mutant: a held snapshot is rendered before the error is looked at.
View_DataFirst ==
    IF loading THEN "loading"
    ELSE IF data.t # "null" THEN "panels"
    ELSE IF Truthy(error) THEN "error"
    ELSE "panels"

\* Which of Home's three returns is taken (lines 285-309).
View ==
    IF loading THEN "loading"
    ELSE IF Truthy(error) THEN "error"
    ELSE "panels"

\* What the components of the selected Tab.Panel render; every panel is
\* wrapped in `data && (...)`.
PanelOutcomes(k, d) ==
    IF d.t = "null" THEN {}
    ELSE CASE k = 0 -> {ComplianceOverview(Field(d, "compliance")),
                        RiskAssessment(Field(d, "riskMetrics")),
                        ServiceMisconfigurations(Field(d, "services"))}
           [] k = 1 -> {ResourceRelationships(Field(d, "resources"))}
           [] k = 2 -> {TrendChart(TrendsField(d, "overall")),
                        TrendChart(TrendsField(d, "ec2"))}

\* A component threw while the page rendered: React unmounts the tree.
Crashed == View = "panels" /\ "throws" \in PanelOutcomes(tab, data)

\* Which data panel is on screen, if any.
PanelShown == View = "panels" /\ data.t # "null" /\ ~Crashed

NoBody == [t |-> "none"]

PgInit ==
    /\ mounted = FALSE
    /\ data = Null
    /\ loading = TRUE
    /\ error = NULL
    /\ timeRange = 30
    /\ tab = 0
    /\ inflight = <<>>
    /\ nStarted = 0

PgIdle == PgInit

\* The ReportGenerator is rendered in the header of the panels view only
\* (line 313).  When another view replaces it the component is unmounted and
\* its state discarded; the instance mounted with the next panels view
\* starts from useState(false).  A request of the unmounted instance goes
\* on, and its setLoading calls no longer reach a mounted component.
ReportGeneratorUnmounts ==
    /\ rpLoading' = FALSE
    /\ rpInflight' = [i \in 1..Len(rpInflight) |-> [rpInflight[i] EXCEPT !.live = FALSE]]
    /\ UNCHANGED <<rpDownloads, rpErrors, nReports>>

\* Mutant: fetchData starts without setLoading(true).
StartFetch_NoLoading(d) ==
    /\ loading' = loading
    /\ error' = NULL
    /\ inflight' = Append(inflight, [days |-> d, phase |-> "awaitFetch", status |-> 0, body |-> NoBody])
    /\ nStarted' = nStarted + 1
    /\ tab' = 0
    /\ ReportGeneratorUnmounts

\* The synchronous start of fetchData (lines 235-239): loading is set, the
\* error cleared and the request sent.  The loading screen replaces the
\* header and the Tab.Group, which starts again from its first tab when it
\* is next shown.
StartFetch(d) ==
    /\ loading' = TRUE
    /\ error' = NULL
    /\ inflight' = Append(inflight, [days |-> d, phase |-> "awaitFetch", status |-> 0, body |-> NoBody])
    /\ nStarted' = nStarted + 1
    /\ tab' = 0
    /\ ReportGeneratorUnmounts

\* The effect of the first render.
PgMount ==
    /\ ~mounted
    /\ mounted' = TRUE
    /\ StartFetch(timeRange)
    /\ UNCHANGED <<data, timeRange, nonPgVars>>

\* Mutant: the time range can be changed from any view, also while the
\* loading screen is shown.
PgSetTimeRange_Ungated(d) ==
    /\ mounted
    /\ d # timeRange
    /\ nStarted < MaxFetches
    /\ timeRange' = d
    /\ StartFetch(d)
    /\ UNCHANGED <<mounted, data, nonPgVars>>

\* The Select of a TrendChart calls setTimeRange(d); the effect runs again
\* for the new timeRange.  The Select is on screen only in the Analytics
\* panel.
PgSetTimeRange(d) ==
    /\ mounted
    /\ PanelShown
    /\ tab = 2
    /\ d # timeRange
    /\ nStarted < MaxFetches
    /\ timeRange' = d
    /\ StartFetch(d)
    /\ UNCHANGED <<mounted, data, nonPgVars>>

\* A Tab is clicked.
PgSelectTab(k) ==
    /\ mounted
    /\ View = "panels"
    /\ ~Crashed
    /\ k # tab
    /\ tab' = k
    /\ UNCHANGED <<mounted, data, loading, error, timeRange, inflight, nStarted, rpVars, nonPgVars>>

RemoveAt(seq, i) == SubSeq(seq, 1, i - 1) \o SubSeq(seq, i + 1, Len(seq))

\* Mutant: the catch block also resets the snapshot with setData(null).
SettleError_ClearsData(i, message) ==
    /\ error' = message
    /\ loading' = FALSE
    /\ data' = Null
    /\ inflight' = RemoveAt(inflight, i)
    /\ UNCHANGED <<mounted, timeRange, tab, nStarted, rpVars, nonPgVars>>

\* Mutant: setLoading(false) is the last statement of the try block, not a
\* finally block, so a failed fetch leaves loading set.
SettleError_KeepsLoading(i, message) ==
    /\ error' = message
    /\ inflight' = RemoveAt(inflight, i)
    /\ UNCHANGED <<mounted, data, loading, timeRange, tab, nStarted, rpVars, nonPgVars>>

\* catch: setError(err instanceof Error ? err.message : 'An error occurred'),
\* then finally: setLoading(false).
SettleError(i, message) ==
    /\ error' = message
    /\ loading' = FALSE
    /\ inflight' = RemoveAt(inflight, i)
    /\ UNCHANGED <<mounted, data, timeRange, tab, nStarted, rpVars, nonPgVars>>

\* Mutant: the response is merged into the snapshot held, as by
\* setData(prev => ({...prev, ...jsonData})) with absent members skipped.
SettleSuccess_Merges(i, json) ==
    /\ data' = IF data.t = "obj" /\ json.t = "obj"
               THEN [f \in DOMAIN json |->
                        IF f \in {"compliance", "riskMetrics", "services", "resources", "trends"}
                           /\ json[f].t = "undef"
                        THEN data[f] ELSE json[f]]
               ELSE json
    /\ loading' = FALSE
    /\ inflight' = RemoveAt(inflight, i)
    /\ UNCHANGED <<mounted, error, timeRange, tab, nStarted, rpVars, nonPgVars>>

\* setData(jsonData), then finally: setLoading(false).
SettleSuccess(i, json) ==
    /\ data' = json
    /\ loading' = FALSE
    /\ inflight' = RemoveAt(inflight, i)
    /\ UNCHANGED <<mounted, error, timeRange, tab, nStarted, rpVars, nonPgVars>>

\* fetch() rejects: a network or transport failure.
PgFetchReject(i) ==
    /\ i \in 1..Len(inflight)
    /\ inflight[i].phase = "awaitFetch"
    /\ SettleError(i, "Failed to fetch")

\* fetch() resolves with a status and a body still to be read.
PgFetchResolve(i, status, kind) ==
    /\ i \in 1..Len(inflight)
    /\ inflight[i].phase = "awaitFetch"
    /\ inflight' = [inflight EXCEPT ![i] =
                      [days |-> @.days,
                       phase |-> IF Ok(status) THEN "awaitJson" ELSE "awaitText",
                       status |-> status,
                       body |-> BodyOf(kind, @.days)]]
    /\ UNCHANGED <<mounted, data, loading, error, timeRange, tab, nStarted, rpVars, nonPgVars>>

\* !response.ok: response.text() resolves and the Error is thrown.  Its
\* message is the fixed prefix followed by the response text, for which the
\* status stands here.
PgTextSettle(i) ==
    /\ i \in 1..Len(inflight)
    /\ inflight[i].phase = "awaitText"
    /\ SettleError(i, "Failed to fetch dashboard data: " \o ToString(inflight[i].status))

\* JavaScript truthiness and typeof of a parsed JSON value.
JsTruthy(json) ==
    CASE json.t = "null" -> FALSE
      [] json.t = "num" -> json.v # 0
      [] json.t = "str" -> json.s # ""
      [] OTHER -> TRUE

JsTypeof(json) ==
    CASE json.t = "num" -> "number"
      [] json.t = "str" -> "string"
      [] OTHER -> "object"

\* Mutant: only the typeof test is made, which null passes.
InvalidJson_TypeofOnly(json) == JsTypeof(json) # "object"

\* `!jsonData || typeof jsonData !== 'object'`
InvalidJson(json) == ~JsTruthy(json) \/ JsTypeof(json) # "object"

\* response.json() settles: a rejection for a body that is not JSON, the
\* validity check of line 251, then setData.
PgJsonSettle(i) ==
    /\ i \in 1..Len(inflight)
    /\ inflight[i].phase = "awaitJson"
    /\ IF inflight[i].body.t = "nonjson"
       THEN SettleError(i, "Unexpected end of JSON input")
       ELSE IF InvalidJson(inflight[i].body)
       THEN SettleError(i, "Invalid dashboard data received")
       ELSE SettleSuccess(i, inflight[i].body)

PgNext ==
    \/ PgMount
    \/ \E d \in TimeRanges : PgSetTimeRange(d)
    \/ \E k \in 0..2 : PgSelectTab(k)
    \/ \E i \in 1..MaxFetches : PgFetchReject(i)
    \/ \E i \in 1..MaxFetches, st \in Statuses, kind \in BodyKinds : PgFetchResolve(i, st, kind)
    \/ \E i \in 1..MaxFetches : PgTextSettle(i)
    \/ \E i \in 1..MaxFetches : PgJsonSettle(i)

(***************************************************************************)
(* Report generation: ReportGenerator and Home.handleGenerateReport        *)
(***************************************************************************)
\* A sample of the format and type Selects' options (ReportGenerator.tsx
\* lines 33-38 and 45-49); 'pdf' and 'full' are the initial selection.
ReportChoices == {[format |-> "pdf", type |-> "full"], [format |-> "csv", type |-> "trends"]}

\* `/api/reports/generate?format=${format}&type=${type}`
ReportUrl(c) == "/api/reports/generate?format=" \o c.format \o "&type=" \o c.type

\* a.download, without the timestamp new Date().toISOString() puts in it
DownloadName(c) == "security-report-" \o c.type \o "." \o c.format

RpIdle ==
    /\ rpLoading = FALSE
    /\ rpInflight = <<>>
    /\ rpDownloads = <<>>
    /\ rpErrors = 0
    /\ nReports = 0

\* Generate Report is clicked: handleGenerate sets loading and calls
\* onGenerate, which sends the request.  The Button is given
\* loading={loading}, for which it is disabled.
RpClickGenerate(c) ==
    /\ mounted
    /\ View = "panels"
    /\ ~Crashed
    /\ ~rpLoading
    /\ nReports < MaxReports
    /\ rpLoading' = TRUE
    /\ rpInflight' = Append(rpInflight,
                            [url |-> ReportUrl(c), choice |-> c, live |-> TRUE, phase |-> "awaitFetch"])
    /\ nReports' = nReports + 1
    /\ UNCHANGED <<rpDownloads, rpErrors, pgVars, nonRpVars>>

\* finally of handleGenerate: setLoading(false), which acts on the instance
\* that made the call if it is still mounted.
ReportReturns(i) ==
    /\ rpLoading' = IF rpInflight[i].live THEN FALSE ELSE rpLoading
    /\ rpInflight' = RemoveAt(rpInflight, i)
    /\ UNCHANGED <<nReports, pgVars, nonRpVars>>

\* Mutant: the catch block of handleGenerateReport also reports the failure
\* on the page with setError.
ReportFailed_SetsError(i) ==
    /\ rpErrors' = rpErrors + 1
    /\ rpLoading' = IF rpInflight[i].live THEN FALSE ELSE rpLoading
    /\ rpInflight' = RemoveAt(rpInflight, i)
    /\ error' = "Failed to generate report"
    /\ UNCHANGED <<rpDownloads, nReports, mounted, data, loading, timeRange, tab, inflight,
                   nStarted, nonRpVars>>

\* catch of handleGenerateReport (lines 280-282): console.error, nothing
\* else; the promise handleGenerate awaits resolves.
ReportFailed(i) ==
    /\ rpErrors' = rpErrors + 1
    /\ UNCHANGED rpDownloads
    /\ ReportReturns(i)

\* fetch() rejects.
RpFetchReject(i) ==
    /\ i \in 1..Len(rpInflight)
    /\ rpInflight[i].phase = "awaitFetch"
    /\ ReportFailed(i)

\* fetch() resolves: a status that is not 2xx throws 'Failed to generate
\* report' (line 270), otherwise the blob is read.
RpFetchResolve(i, status) ==
    /\ i \in 1..Len(rpInflight)
    /\ rpInflight[i].phase = "awaitFetch"
    /\ IF Ok(status)
       THEN /\ rpInflight' = [rpInflight EXCEPT ![i].phase = "awaitBlob"]
            /\ UNCHANGED <<rpLoading, rpDownloads, rpErrors, nReports, pgVars, nonRpVars>>
       ELSE ReportFailed(i)

\* response.blob() rejects.
RpBlobReject(i) ==
    /\ i \in 1..Len(rpInflight)
    /\ rpInflight[i].phase = "awaitBlob"
    /\ ReportFailed(i)

\* response.blob() resolves: the anchor is built and clicked (lines 272-279).
RpBlobResolve(i) ==
    /\ i \in 1..Len(rpInflight)
    /\ rpInflight[i].phase = "awaitBlob"
    /\ rpDownloads' = Append(rpDownloads, DownloadName(rpInflight[i].choice))
    /\ UNCHANGED rpErrors
    /\ ReportReturns(i)

RpNext ==
    \/ \E c \in ReportChoices : RpClickGenerate(c)
    \/ \E i \in 1..MaxReports : RpFetchReject(i)
    \/ \E i \in 1..MaxReports, status \in {200, 503} : RpFetchResolve(i, status)
    \/ \E i \in 1..MaxReports : RpBlobReject(i)
    \/ \E i \in 1..MaxReports : RpBlobResolve(i)

\* The page under the report path: the dashboard fetch fails by a rejection
\* or answers 200 with the complete snapshot or with null.
RpPageNext ==
    \/ PgMount
    \/ \E d \in TimeRanges : PgSetTimeRange(d)
    \/ \E k \in 0..2 : PgSelectTab(k)
    \/ \E i \in 1..MaxFetches : PgFetchReject(i)
    \/ \E i \in 1..MaxFetches, kind \in {"full", "null"} : PgFetchResolve(i, 200, kind)
    \/ \E i \in 1..MaxFetches : PgJsonSettle(i)

(***************************************************************************)
(* The derived data of the panels                                          *)
(***************************************************************************)
\* resourcesList (misconfig-details.tsx lines 154-166): a new list of new
\* objects, every issue copied by spread and decorated with its colour and
\* icon.
ResourcesList(services) ==
    [e \in 1..Len(services.entries) |->
        [service |-> services.entries[e].service,
         resources |->
            [r \in 1..Len(services.entries[e].resources) |->
                LET resource == services.entries[e].resources[r]
                IN  [resource EXCEPT !.misconfigurations =
                        [i \in 1..Len(resource.misconfigurations.items) |->
                            LET issue == resource.misconfigurations.items[i]
                            IN  [type |-> issue.type,
                                 severity |-> issue.severity,
                                 description |-> issue.description,
                                 severityColor |-> getSeverityColor(issue.severity),
                                 Icon |-> getSeverityIcon(issue.severity)]]]]]]

RdIdle == rdOut = [trend |-> NoOut, graph |-> NoGraph, services |-> <<>>, donut |-> <<>>]

\* A TrendChart of the Analytics panel renders: formattedData is computed
\* from data.trends?.overall or data.trends?.services?.ec2.
RdTrend(name) ==
    /\ PanelShown
    /\ tab = 2
    /\ rdOut' = [rdOut EXCEPT !.trend = FormatSeries(TrendsField(data, name))]
    /\ UNCHANGED nonRdVars

\* ResourceRelationships renders: graphData is computed from data.resources.
RdGraph ==
    /\ PanelShown
    /\ tab = 1
    /\ rdOut' = [rdOut EXCEPT !.graph = GraphData(Field(data, "resources"))]
    /\ UNCHANGED nonRdVars

\* Mutant: the decoration is written into the issues of the snapshot, as by
\* issue.severityColor = getSeverityColor(issue.severity) in a forEach.
RdServices_InPlace ==
    /\ PanelShown
    /\ tab = 0
    /\ ServiceMisconfigurations(Field(data, "services")) = "content"
    /\ rdOut' = [rdOut EXCEPT !.services = ResourcesList(Field(data, "services"))]
    /\ data' = [data EXCEPT !.services.entries =
                  [e \in 1..Len(@) |->
                      [@[e] EXCEPT !.resources =
                          [r \in 1..Len(@) |->
                              [@[r] EXCEPT !.misconfigurations =
                                  Arr(rdOut'.services[e].resources[r].misconfigurations)]]]]]
    /\ UNCHANGED <<mounted, loading, error, timeRange, tab, inflight, nStarted,
                   pxVars, trVars, grVars, clVars, lbVars, rpVars, mtVars>>

\* ServiceMisconfigurations renders its list: resourcesList is computed from
\* data.services.
RdServices ==
    /\ PanelShown
    /\ tab = 0
    /\ ServiceMisconfigurations(Field(data, "services")) = "content"
    /\ rdOut' = [rdOut EXCEPT !.services = ResourcesList(Field(data, "services"))]
    /\ UNCHANGED nonRdVars

\* RiskAssessment renders: the donut's data is built from data.riskMetrics.
RdDonut ==
    /\ PanelShown
    /\ tab = 0
    /\ rdOut' = [rdOut EXCEPT !.donut = RiskSegments(Field(data, "riskMetrics"))]
    /\ UNCHANGED nonRdVars

RdNext ==
    \/ \E name \in {"overall", "ec2"} : RdTrend(name)
    \/ RdGraph
    \/ RdServices
    \/ RdDonut

(***************************************************************************)
(* MisconfigTable and its details modal                                    *)
(***************************************************************************)
\* mockMisconfigurations (lines 17-66), each row with the members the table
\* shows; the row object is handed to the modal as it is.
mockMisconfigurations ==
    <<[service |-> "S3", resource |-> "data-backup-bucket", riskLevel |-> Critical,
       description |-> "Public read access enabled", compliance |-> "CIS 2.1.5"],
      [service |-> "IAM", resource |-> "service-role-prod", riskLevel |-> High,
       description |-> "Overly permissive IAM role", compliance |-> "NIST AC-6"],
      [service |-> "EC2", resource |-> "web-server-01", riskLevel |-> Medium,
       description |-> "Security group allows all inbound traffic", compliance |-> "PCI DSS 1.3"]>>

\* `showDetails && selectedMisconfig && <MisconfigDetails ...>` (line 131)
ModalShown == showDetails /\ selectedMisconfig.t # "null"

\* The state of a freshly mounted table.
MtInit ==
    /\ selectedMisconfig = Null
    /\ showDetails = FALSE
    /\ mtClicks = <<>>

\* View Details of row i is clicked (lines 114-117).  The button can be
\* activated from the keyboard also while the modal covers the table.
MtViewDetails(i) ==
    /\ Len(mtClicks) < MaxClicks
    /\ selectedMisconfig' = [t |-> "obj", row |-> mockMisconfigurations[i]]
    /\ showDetails' = TRUE
    /\ mtClicks' = Append(mtClicks, i)
    /\ UNCHANGED nonMtVars

\* Mutant: closing the modal also clears the selection.
MtClose_ClearsSelection ==
    /\ ModalShown
    /\ showDetails' = FALSE
    /\ selectedMisconfig' = Null
    /\ UNCHANGED <<mtClicks, nonMtVars>>

\* onClose of the modal (line 134), from either of its two close buttons.
MtClose ==
    /\ ModalShown
    /\ showDetails' = FALSE
    /\ UNCHANGED <<selectedMisconfig, mtClicks, nonMtVars>>

MtNext ==
    \/ \E i \in 1..Len(mockMisconfigurations) : MtViewDetails(i)
    \/ MtClose

(***************************************************************************)
(* Specifications                                                          *)
(***************************************************************************)
PxIdle ==
    /\ env = UNDEF
    /\ pxPc = "idle"
    /\ pxReq = [present |-> FALSE, raw |-> <<>>]
    /\ pxCalls = <<>>
    /\ pxUp = NoUp
    /\ pxRes = NoRes
    /\ pxThrew = FALSE

\* The dashboard page.
Init == PgInit /\ PxIdle /\ TrIdle /\ GrIdle /\ ClIdle /\ LbIdle /\ RpIdle /\ RdIdle /\ MtInit
Next == PgNext
Spec == Init /\ [][Next]_vars

\* The proxy route.
InitProxy == PxInit /\ PgIdle /\ TrIdle /\ GrIdle /\ ClIdle /\ LbIdle /\ RpIdle /\ RdIdle /\ MtInit
SpecProxy == InitProxy /\ [][PxNext]_vars

\* The trend formatter over every series within the bounds.
InitTrend == TrInit /\ PxIdle /\ PgIdle /\ GrIdle /\ ClIdle /\ LbIdle /\ RpIdle /\ RdIdle /\ MtInit
SpecTrend == InitTrend /\ [][TrNext]_vars

\* The graph projection over every resource list within the bounds.
InitGraph == GrInit /\ PxIdle /\ PgIdle /\ TrIdle /\ ClIdle /\ LbIdle /\ RpIdle /\ RdIdle /\ MtInit
SpecGraph == InitGraph /\ [][GrNext]_vars

\* The colour mappings over every sample string.
InitColor == ClInit /\ PxIdle /\ PgIdle /\ TrIdle /\ GrIdle /\ LbIdle /\ RpIdle /\ RdIdle /\ MtInit
SpecColor == InitColor /\ [][ClNext]_vars

\* The pie label over every slice of every pie within the bounds.
InitLabel == LbInit /\ PxIdle /\ PgIdle /\ TrIdle /\ GrIdle /\ ClIdle /\ RpIdle /\ RdIdle /\ MtInit
SpecLabel == InitLabel /\ [][LbNext]_vars

\* The dashboard page with its report generator.
NextReport == RpPageNext \/ RpNext
SpecReport == Init /\ [][NextReport]_vars

\* The dashboard page with the mappers of its panels, the dashboard fetch
\* answering as under the report path.
NextRender == RpPageNext \/ RdNext
SpecRender == Init /\ [][NextRender]_vars

\* The misconfiguration table.
InitTable == MtInit /\ PxIdle /\ PgIdle /\ TrIdle /\ GrIdle /\ ClIdle /\ LbIdle /\ RpIdle /\ RdIdle
SpecTable == InitTable /\ [][MtNext]_vars

(***************************************************************************)
(* Claims about the proxy route                                            *)
(***************************************************************************)
Range(f) == {f[i] : i \in DOMAIN f}

\* Index of the first "&" of a character sequence, or Len + 1.
FirstAmp(chars) ==
    IF "&" \in Range(chars)
    THEN CHOOSE i \in 1..Len(chars) : chars[i] = "&" /\ \A j \in 1..(i - 1) : chars[j] # "&"
    ELSE Len(chars) + 1

\* The days value the upstream reads off a URL it receives: the text
\* between "days=" and the next "&".
UpstreamDays(url) ==
    LET q == SubSeq(url, 6, Len(url))
    IN  SubSeq(q, 1, FirstAmp(q) - 1)

\* The n of a request ?days=n.
RequestedDays(req) == SearchParamsGet(req).chars

ExpectedBase == IF env = UNDEF \/ env = "" THEN "http://localhost:5000" ELSE env

C3_TransportFailure ==
    /\ ~pxThrew
    /\ (pxPc = "done" /\ pxUp.kind = "rejected") =>
          /\ pxRes.status = 500
          /\ pxRes.body = [t |-> "obj", error |-> "Internal server error", detail |-> UNDEF]

\* C3 witness: a request whose upstream fetch rejected has been answered.
C3_Witness ==
    /\ pxPc = "done"
    /\ pxUp.kind = "rejected"
    /\ pxRes.status = 500

(***************************************************************************)
(* Claims about the dashboard page                                         *)
(***************************************************************************)
\* idle, loading, success or error: the state of the page's fetch lifecycle.
PageState ==
    IF ~mounted THEN "idle"
    ELSE IF loading THEN "loading"
    ELSE IF error # NULL THEN "error"
    ELSE "success"

\* The step starts a fetch.
FetchStarts == Len(inflight') = Len(inflight) + 1

\* The step settles the in-flight fetch i.
FetchSettles(i) ==
    /\ i \in 1..Len(inflight)
    /\ inflight' = RemoveAt(inflight, i)

\* C4: the fetch lifecycle is idle -> loading -> {success | error}: every
\* fetch begins by setting loading and clearing the error, and every fetch
\* ends in exactly one of success (data set to the response, error still
\* null) or error (error message set, data as it was), never both.
C4_FetchLifecycle ==
    [][ /\ FetchStarts =>
              /\ PageState \in {"idle", "success"}
              /\ PageState' = "loading"
              /\ loading' /\ error' = NULL
        /\ \A i \in 1..Len(inflight) : FetchSettles(i) =>
              /\ PageState = "loading"
              /\ \/ /\ PageState' = "success"
                    /\ data' = inflight[i].body
                    /\ error' = NULL
                 \/ /\ PageState' = "error"
                    /\ error' \notin {NULL, ""}
                    /\ data' = data
        /\ (PageState' # PageState) => (FetchStarts \/ \E i \in 1..Len(inflight) : FetchSettles(i))
      ]_vars

\* C4 witness: a second fetch, for another timeRange, failed after the first
\* had succeeded: the page went loading, success, loading, error.
C4_Witness ==
    /\ PageState = "error"
    /\ nStarted = 2
    /\ timeRange = 90
    /\ data = Snapshot("full", 30)
    /\ inflight = <<>>

\* The fetch failed by (a) a transport failure, (b) a non-2xx response or
\* (c) a body that is not JSON or is absent.
FailsABC(f) ==
    \/ f.phase = "awaitFetch"
    \/ f.phase = "awaitText"
    \/ f.phase = "awaitJson" /\ f.body.t \in {"nonjson", "null"}

\* C5: a fetch failing by (a), (b) or (c) puts the page into the error
\* state, and whenever error is set and loading is false the page renders
\* the error banner and no data panel, also when a snapshot is held.
C5_ErrorBanner ==
    /\ []((error # NULL /\ ~loading) => (View = "error" /\ ~PanelShown))
    /\ [][ \A i \in 1..Len(inflight) :
              (FetchSettles(i) /\ FailsABC(inflight[i])) =>
                  (error' # NULL /\ ~loading' /\ View' = "error") ]_vars

\* C5 witness: a re-fetch failed while the snapshot of an earlier fetch is
\* held, and the page shows the error banner.
C5_Witness ==
    /\ ~loading
    /\ error = "Failed to fetch"
    /\ data.t = "obj"
    /\ View = "error"

\* C6: every component that consumes a member of the snapshot renders
\* without throwing when that member is undefined or an empty collection,
\* for every object accepted as the snapshot.
C6_OptionalSafe ==
    (View = "panels" /\ data.t # "null") =>
        CASE tab = 0 -> /\ ComplianceOverview(Field(data, "compliance")) # "throws"
                        /\ RiskAssessment(Field(data, "riskMetrics")) # "throws"
                        /\ ServiceMisconfigurations(Field(data, "services")) # "throws"
          [] tab = 1 -> ResourceRelationships(Field(data, "resources")) # "throws"
          [] tab = 2 -> \A name \in {"overall", "ec2"} :
                            TrendsField(data, name) \in {Undef, Arr(<<>>)}
                                => TrendChart(TrendsField(data, name)) = "fallback"

(***************************************************************************)
(* Claims about the trend formatter                                        *)
(***************************************************************************)
\* The point has a date that parses as ISO-8601 and a numeric value.
ValidPoint(p) ==
    /\ p.t = "obj"
    /\ p.date \notin {UNDEF, ""}
    /\ ParseISO(p.date).valid
    /\ p.value.t = "num"

\* C7: for every series the formatter returns, without throwing, a sequence
\* no longer than the input that holds exactly the points whose date parses
\* as ISO-8601 and whose value is numeric; every other point is excluded.
C7_MalformedPointsDropped ==
    (trPc = "rendered" /\ trIn.t = "arr" /\ \A i \in 1..Len(trIn.items) : trIn.items[i].t = "obj") =>
        /\ ~trOut.threw
        /\ Len(trOut.out) <= Len(trIn.items)
        /\ Len(trOut.out) = Cardinality({i \in 1..Len(trIn.items) : ValidPoint(trIn.items[i])})

\* C8: the formatter returns the empty sequence for [] and for undefined.
C8_EmptyInput ==
    (trPc = "rendered" /\ (trIn = Undef \/ trIn = Arr(<<>>))) =>
        (~trOut.threw /\ trOut.out = <<>>)

\* C8 witness: the formatter has run on undefined.
C8_Witness ==
    /\ trPc = "rendered"
    /\ trIn = Undef
    /\ trOut = [threw |-> FALSE, out |-> <<>>]

(***************************************************************************)
(* Claims about the graph projection                                       *)
(***************************************************************************)
\* Number of relationship entries of the first n resources.
RECURSIVE EntriesBefore(_, _)
EntriesBefore(items, n) ==
    IF n = 0 THEN 0
    ELSE EntriesBefore(items, n - 1) + Len(items[n].relationships.items)

\* Every resource of the list has a relationships array.
AllHaveRelationships(resources) ==
    /\ resources.t = "arr"
    /\ \A i \in 1..Len(resources.items) : resources.items[i].relationships.t = "arr"

\* C9: N resources with E relationship entries in total project, without
\* an error, to exactly N nodes (one per resource, in order, with its id
\* and name) and exactly E links (source the owning resource, target the
\* entry), duplicates, self-references and dangling targets included.
C9_GraphProjection ==
    (grPc = "rendered" /\ AllHaveRelationships(grIn)) =>
        LET items == grIn.items
            N == Len(items)
            E == EntriesBefore(items, N)
        IN  /\ ~grOut.threw
            /\ Len(grOut.nodes) = N
            /\ \A i \in 1..N : /\ grOut.nodes[i].id = items[i].id
                               /\ grOut.nodes[i].name = items[i].name
            /\ Len(grOut.links) = E
            /\ \A i \in 1..N : \A j \in 1..Len(items[i].relationships.items) :
                   grOut.links[EntriesBefore(items, i - 1) + j]
                     = [source |-> items[i].id, target |-> items[i].relationships.items[j]]

\* C9 witness: two resources with a self-reference, a dangling target and a
\* duplicated entry were projected to two nodes and four links.
C9_Witness ==
    /\ grPc = "rendered"
    /\ grIn.t = "arr"
    /\ Len(grIn.items) = 2
    /\ grIn.items[1].id = "a"
    /\ grIn.items[1].relationships = Arr(<<"a", "zz">>)
    /\ grIn.items[2].id = "b"
    /\ grIn.items[2].relationships = Arr(<<"a", "a">>)
    /\ Len(grOut.nodes) = 2
    /\ Len(grOut.links) = 4

(***************************************************************************)
(* Claims about the colour mappings                                        *)
(***************************************************************************)
Severities == {HIGH, MEDIUM, LOW}
RiskLevels == {Critical, High, Medium, Low}

\* The colours each mapping declares, and its neutral default.
Palette(fn) ==
    CASE fn = "getSeverityColor" -> {"rose", "amber", "emerald", "slate"}
      [] fn = "getRiskLevelColor" -> {"bg-red-100 text-red-800", "bg-blue-100 text-blue-800",
                                      "bg-gray-100 text-gray-800"}
      [] fn = "getRiskBadgeVariant" -> {"destructive", "default", "secondary", "outline"}

NeutralDefault(fn) ==
    CASE fn = "getSeverityColor" -> "slate"
      [] fn = "getRiskLevelColor" -> "bg-gray-100 text-gray-800"
      [] fn = "getRiskBadgeVariant" -> "outline"

\* The strings a mapping recognises as a level: the severities for
\* getSeverityColor, the risk levels for the other two, getRiskBadgeVariant
\* comparing without regard to case.
Recognized(fn, str) ==
    CASE fn = "getSeverityColor" -> str \in Severities
      [] fn = "getRiskLevelColor" -> str \in RiskLevels
      [] fn = "getRiskBadgeVariant" -> ToLowerCase(str) \in {ToLowerCase(l) : l \in RiskLevels}

\* C10: the colour mappings are total: for every severity and every risk
\* level they return one of the declared palette colours, and for every
\* unrecognised string the neutral default; no call fails.
C10_ColorTotal ==
    clPc = "returned" =>
        /\ clOut \in Palette(clFn)
        /\ ~Recognized(clFn, clIn) => clOut = NeutralDefault(clFn)

\* C10 witness: getSeverityColor has mapped a string that names no severity
\* to slate.
C10_Witness ==
    /\ clPc = "returned"
    /\ clFn = "getSeverityColor"
    /\ clIn = <<"i", "n", "f", "o">>
    /\ clOut = "slate"

\* The colour family a returned colour belongs to.
Family(color) ==
    CASE color \in {"rose", "bg-red-100 text-red-800"} -> "red"
      [] color = "amber" -> "amber"
      [] color = "emerald" -> "green"
      [] color = "bg-blue-100 text-blue-800" -> "blue"
      [] color \in {"slate", "bg-gray-100 text-gray-800"} -> "gray"
      [] OTHER -> "none"

\* The families a level may be drawn in: red for the top level, amber or
\* orange for the second, green or blue for the third, any family but gray
\* for another declared level, gray for a string that names no level.
FamiliesFor(fn, str) ==
    CASE fn = "getSeverityColor" /\ str = HIGH -> {"red"}
      [] fn = "getSeverityColor" /\ str = MEDIUM -> {"amber", "orange"}
      [] fn = "getSeverityColor" /\ str = LOW -> {"green", "blue"}
      [] fn = "getRiskLevelColor" /\ str = Critical -> {"red"}
      [] fn = "getRiskLevelColor" /\ str = High -> {"amber", "orange"}
      [] fn = "getRiskLevelColor" /\ str = Medium -> {"green", "blue"}
      [] fn = "getRiskLevelColor" /\ str = Low -> {"red", "amber", "orange", "green", "blue"}
      [] OTHER -> {"gray"}

\* C11: getSeverityColor and getRiskLevelColor assign colour families by
\* level: the top level (HIGH, Critical) is red, the second (MEDIUM, High)
\* amber or orange, the third (LOW, Medium) green or blue, and a string that
\* names no level gray; a declared level is never drawn in the gray of an
\* unknown value.
C11_ColorFamilies ==
    (clPc = "returned" /\ clFn \in {"getSeverityColor", "getRiskLevelColor"}) =>
        Family(clOut) \in FamiliesFor(clFn, clIn)

\* C11 for getSeverityColor alone, where it holds.
C11_SeverityFamilies ==
    (clPc = "returned" /\ clFn = "getSeverityColor") =>
        Family(clOut) \in FamiliesFor(clFn, clIn)

(***************************************************************************)
(* Claims about the Risk Overview pie                                      *)
(***************************************************************************)
\* The slice's share of the pie in whole percent, half a percent rounding
\* up, computed in exact arithmetic.
WholePercent == (200 * lbSlice.value + lbTotal) \div (2 * lbTotal)

\* C12: renderCustomizedLabel returns null exactly when the slice's share,
\* rounded to a whole percent, is below 5, and a label when it is 5 or more;
\* a slice at exactly 5% is labelled.
C12_LabelThreshold ==
    lbPc = "returned" =>
        /\ lbOut.t = "null" <=> WholePercent < 5
        /\ lbOut.t = "text" <=> WholePercent >= 5
        /\ 20 * lbSlice.value = lbTotal => lbOut.t = "text"

\* C12 witness: a slice of 9 in a pie of 200, 4.5% of it, has been labelled
\* as 5%.
C12_Witness ==
    /\ lbPc = "returned"
    /\ lbSlice = [name |-> "Low", value |-> 9]
    /\ lbTotal = 200
    /\ lbOut = [t |-> "text", text |-> "9 Low (5%)"]

\* The values of a chart's segments, in order.
SegmentValues(segments) == [i \in 1..Len(segments) |-> segments[i].value]

\* The Overview tab shows a snapshot whose riskMetrics are high 3, medium 8,
\* low 24.
ShowsMetrics ==
    /\ PanelShown
    /\ tab = 0
    /\ Field(data, "riskMetrics") = Metrics

\* C13: given a snapshot with riskMetrics = {high: 3, medium: 8, low: 24},
\* the Risk Overview's total reads 35 issues, the sum of the three counts,
\* and it renders exactly three segments with the values 3, 8 and 24.
C13_OverviewFromSnapshot ==
    ShowsMetrics =>
        /\ OverviewHeader = "35 issues"
        /\ SegmentValues(OverviewData) = <<3, 8, 24>>

\* C13 as amended: RiskAssessment draws exactly three segments with the
\* values 3, 8 and 24 (35 in all) from the snapshot, while the Risk Overview
\* card does not read the snapshot: it draws the four hard-coded segments 3,
\* 8, 15 and 24 and its total reads 50 issues.
C13_RiskDonut ==
    ShowsMetrics =>
        /\ SegmentValues(RiskSegments(Field(data, "riskMetrics"))) = <<3, 8, 24>>
        /\ SumValues(RiskSegments(Field(data, "riskMetrics"))) = 35
        /\ SegmentValues(OverviewData) = <<3, 8, 15, 24>>
        /\ OverviewHeader = "50 issues"

\* C13 witness: the Overview tab shows the complete snapshot.
C13_Witness ==
    /\ ShowsMetrics
    /\ data = Snapshot("full", 30)

(***************************************************************************)
(* Claims about re-fetching                                                *)
(***************************************************************************)
\* C14: dashboard fetches are neither cancelled nor de-duplicated: a second
\* fetch can be started while an earlier one is still in flight, so that
\* both commit in the order they resolve and the snapshot held in the end
\* can answer another days value than the current timeRange.  Stated for
\* every state with a fetch in flight: a change of timeRange, which starts
\* the second fetch, is possible there.
C14_OverlappingFetches ==
    (inflight # <<>> /\ nStarted < MaxFetches) =>
        ENABLED (\E d \in TimeRanges : PgSetTimeRange(d))

\* C14 as amended: at most one dashboard fetch is in flight, and it is for
\* the current timeRange: the Select that changes timeRange is not rendered
\* while loading is true.  So once no fetch is in flight and no error is
\* set, the snapshot held answers the current timeRange.
C14_OneFetchInFlight ==
    /\ Len(inflight) <= 1
    /\ inflight # <<>> => (loading /\ inflight[1].days = timeRange)
    /\ (mounted /\ inflight = <<>> /\ error = NULL /\ data.t # "null") =>
           data.forDays = timeRange

\* C14 witness: a second fetch, for 90 days, was started after the first had
\* settled, and its response is the snapshot held.
C14_Witness ==
    /\ nStarted = 2
    /\ inflight = <<>>
    /\ error = NULL
    /\ timeRange = 90
    /\ data.t = "obj"
    /\ data.forDays = 90

\* C15: from both the success state and the error state the page can
\* re-enter loading: in each of them a control that leads to a new fetch
\* (the timeRange Select, a tab that holds it, a retry) is available, so the
\* error state is not terminal.
C15_CanReenterLoading ==
    (PageState \in {"success", "error"} /\ ~Crashed /\ nStarted < MaxFetches) =>
        \/ ENABLED (\E d \in TimeRanges : PgSetTimeRange(d))
        \/ ENABLED (\E k \in 0..2 : PgSelectTab(k))

\* C15 as amended: only the success state can re-enter loading, by a change
\* of timeRange in the Analytics panel, which starts a new fetch.  The error
\* view offers neither the Select nor a retry: no step leaves the error
\* state or changes the page's state in it.
C15_ErrorTerminal ==
    /\ []((PanelShown /\ tab = 2 /\ nStarted < MaxFetches) =>
            /\ PageState = "success"
            /\ \A d \in TimeRanges \ {timeRange} : ENABLED PgSetTimeRange(d))
    /\ []((PageState = "error") =>
            /\ ~ENABLED (\E d \in TimeRanges : PgSetTimeRange(d))
            /\ ~ENABLED (\E k \in 0..2 : PgSelectTab(k)))
    /\ [][ /\ timeRange' # timeRange =>
                (PageState = "success" /\ PageState' = "loading" /\ FetchStarts)
           /\ PageState = "error" => UNCHANGED pgVars ]_vars

\* C15 witness: the page re-entered loading from the success state by a
\* change of timeRange to 7, that fetch failed, and fetches are still
\* allowed by the bound.
C15_Witness ==
    /\ PageState = "error"
    /\ nStarted = 2
    /\ nStarted < MaxFetches
    /\ timeRange = 7
    /\ data.t = "obj"
    /\ inflight = <<>>

\* C16: every change of timeRange to a new value triggers one full re-fetch
\* of /api/dashboard for the new timeRange, and nothing else but the mount
\* starts a fetch; a successful response replaces the whole snapshot at
\* once: the snapshot held afterwards is the response, with no member of the
\* previous snapshot surviving.
C16_FullRefetch ==
    [][ /\ timeRange' # timeRange =>
              /\ Len(inflight') = Len(inflight) + 1
              /\ SubSeq(inflight', 1, Len(inflight)) = inflight
              /\ inflight'[Len(inflight')] =
                    [days |-> timeRange', phase |-> "awaitFetch", status |-> 0, body |-> NoBody]
        /\ FetchStarts => (~mounted \/ timeRange' # timeRange)
        /\ \A i \in 1..Len(inflight) :
              (FetchSettles(i) /\ error' = NULL) =>
                  /\ data' = inflight[i].body
                  /\ data'.forDays = inflight[i].days
        /\ data' # data => \E i \in 1..Len(inflight) : FetchSettles(i) /\ error' = NULL
      ]_vars

\* C16 witness: after a change of timeRange to 7 the response to the
\* re-fetch, an object without any member, is the snapshot held.
C16_Witness ==
    /\ nStarted = 2
    /\ PageState = "success"
    /\ timeRange = 7
    /\ data = Snapshot("empty", 7)

\* C17: every dashboard fetch that settles, with success or with an error,
\* sets loading to false, so the page is never left loading once every
\* fetch has settled.
C17_LoadingCleared ==
    /\ []((mounted /\ inflight = <<>>) => ~loading)
    /\ [][ \A i \in 1..Len(inflight) : FetchSettles(i) => ~loading' ]_vars

\* C17 witness: the second fetch settled at the validity check, and the page
\* is not loading.
C17_Witness ==
    /\ mounted
    /\ nStarted = 2
    /\ inflight = <<>>
    /\ ~loading
    /\ error = "Invalid dashboard data received"

(***************************************************************************)
(* Claims about the validation of the response                             *)
(***************************************************************************)
\* C20: the only validation of a parsed response body is that it is a
\* non-null object: a body that is null or not an object puts the page into
\* the error state and commits no data, and every non-null object, an array
\* or an object without any expected member included, is committed as the
\* snapshot with no error.
C20_ObjectCheckOnly ==
    [][ \A i \in 1..Len(inflight) :
          (FetchSettles(i) /\ inflight[i].phase = "awaitJson" /\ inflight[i].body.t # "nonjson") =>
              IF inflight[i].body.t \in {"obj", "arr"}
              THEN data' = inflight[i].body /\ error' = NULL /\ PageState' = "success"
              ELSE data' = data /\ error' = "Invalid dashboard data received"
                   /\ PageState' = "error"
      ]_vars

\* C20 witness: an array was committed as the snapshot, with no error.
C20_Witness ==
    /\ PageState = "success"
    /\ error = NULL
    /\ data.t = "arr"

(***************************************************************************)
(* Claims about report generation                                          *)
(***************************************************************************)
\* C18: report generation is gated by the loading flag: while one
\* report-generation request is in flight no second request is submitted,
\* so there is never more than one in flight, and a request that finishes,
\* with a download or with a failure, leaves the flag of the component that
\* made it false.
C18_OneReportInFlight ==
    /\ Len(rpInflight) <= 1
    /\ (rpInflight = <<>>) => ~rpLoading

\* The step ends the report request i with a failure: a rejected fetch, a
\* status that is not 2xx, or a body that cannot be read.
ReportFails(i) ==
    /\ i \in 1..Len(rpInflight)
    /\ rpInflight' = RemoveAt(rpInflight, i)
    /\ rpDownloads' = rpDownloads

\* C19: a failed report generation is only logged: it writes one console
\* error, leaves the page's data, error, loading and timeRange and the view
\* unchanged, and triggers no download; and a download is triggered only by
\* a request that is read to its end.
C19_FailureOnlyLogged ==
    [][ /\ \A i \in 1..Len(rpInflight) :
              ReportFails(i) =>
                  /\ rpErrors' = rpErrors + 1
                  /\ UNCHANGED <<data, error, loading, timeRange, tab, inflight>>
                  /\ View' = View
        /\ \A i \in 1..Len(rpInflight) :
              (rpInflight[i].phase = "awaitFetch" /\ rpInflight' = RemoveAt(rpInflight, i)) =>
                  rpDownloads' = rpDownloads
        /\ rpErrors' # rpErrors => UNCHANGED <<pgVars, rpDownloads>>
      ]_vars

\* C19 witness: a report request has failed; the panels of the complete
\* snapshot are still shown, with no error and no download.
C19_Witness ==
    /\ rpErrors = 1
    /\ nReports = 1
    /\ rpInflight = <<>>
    /\ rpDownloads = <<>>
    /\ PanelShown
    /\ error = NULL
    /\ data = Snapshot("full", 30)

(***************************************************************************)
(* Further claims about the trend formatter                                *)
(***************************************************************************)
\* The valid points of a series, in their order, as the formatter is to
\* return them: the date formatted, the value as it is.
RECURSIVE ValidPointsOf(_)
ValidPointsOf(items) ==
    IF items = <<>> THEN <<>>
    ELSE (IF ValidPoint(Head(items))
          THEN <<[date |-> Format(ParseISO(Head(items).date)).text,
                  value |-> Head(items).value.v]>>
          ELSE <<>>) \o ValidPointsOf(Tail(items))

\* C21: a malformed point affects only itself: for a series of objects that
\* holds a valid point, the formatter returns exactly the valid points of
\* the input, in their original order and with their value unchanged,
\* whatever malformed points stand between them.
C21_MalformedPointLocal ==
    (/\ trPc = "rendered"
     /\ trIn.t = "arr"
     /\ \A i \in 1..Len(trIn.items) : trIn.items[i].t = "obj"
     /\ \E i \in 1..Len(trIn.items) : ValidPoint(trIn.items[i])) =>
        /\ ~trOut.threw
        /\ trOut.out = ValidPointsOf(trIn.items)

(***************************************************************************)
(* Claims about the held snapshot                                          *)
(***************************************************************************)
\* C22: the fetched snapshot is read-only on the client: no mapper (trend
\* formatter, severity decoration, graph projection, donut data) modifies
\* the snapshot it reads from, and the only writes to the held snapshot are
\* replacements of the whole object by the response of a successful fetch.
C22_SnapshotReadOnly ==
    [][ /\ rdOut' # rdOut => data' = data
        /\ data' # data =>
              \E i \in 1..Len(inflight) :
                  FetchSettles(i) /\ error' = NULL /\ data' = inflight[i].body
      ]_vars

\* C22 witness: all four mappers have computed their derived data from the
\* complete snapshot, which is still held as it was received.
C22_Witness ==
    /\ data = Snapshot("full", 30)
    /\ rdOut.trend.out # <<>>
    /\ rdOut.graph.nodes # <<>>
    /\ rdOut.services # <<>>
    /\ rdOut.donut # <<>>

\* C23: in every reachable state, if a dashboard fetch is still in flight
\* then loading is true and the loading screen is shown, not the data
\* panels or the error banner, whatever the interleaving of timeRange
\* changes and fetch completions.
C23_LoadingWhileInFlight ==
    inflight # <<>> => (loading /\ View = "loading" /\ ~PanelShown)

\* C23 witness: a re-fetch is in flight, its response received but not yet
\* parsed, while the snapshot of the first fetch is held; the loading screen
\* is shown.
C23_Witness ==
    /\ nStarted = 2
    /\ Len(inflight) = 1
    /\ inflight[1].phase = "awaitJson"
    /\ data.t = "obj"
    /\ View = "loading"

\* C24: a failed dashboard re-fetch leaves the committed snapshot unchanged:
\* data is written only by a successful fetch, and neither the start of a
\* fetch nor its failure changes it or resets it to null.
C24_DataKeptOnFailure ==
    [][ /\ FetchStarts => data' = data
        /\ \A i \in 1..Len(inflight) :
              (FetchSettles(i) /\ error' # NULL) => data' = data
        /\ data' # data =>
              \E i \in 1..Len(inflight) :
                  /\ FetchSettles(i)
                  /\ inflight[i].phase = "awaitJson"
                  /\ error' = NULL
        /\ data.t # "null" => data'.t # "null"
      ]_vars

\* C24 witness: the re-fetch for 7 days was answered 503, and the snapshot
\* of the first fetch is still held.
C24_Witness ==
    /\ error = "Failed to fetch dashboard data: 503"
    /\ timeRange = 7
    /\ data = Snapshot("full", 30)
    /\ ~loading

(***************************************************************************)
(* Further claims about the proxy route                                    *)
(***************************************************************************)
\* The text that follows "days=" in an upstream URL.
DaysText(url) == SubSeq(url, 6, Len(url))

C26_ModalFollowsSelection ==
    /\ [](showDetails => selectedMisconfig.t # "null")
    /\ [](ModalShown =>
            /\ mtClicks # <<>>
            /\ selectedMisconfig.row = mockMisconfigurations[mtClicks[Len(mtClicks)]])
    /\ [][(showDetails /\ ~showDetails') =>
            (selectedMisconfig' = selectedMisconfig /\ selectedMisconfig'.t # "null")]_vars
    /\ [][(ModalShown /\ mtClicks' = mtClicks) => ~showDetails']_vars

\* C26 witness: View Details of the first row and then of the third row
\* was clicked; the modal of the third row is shown.
C26_Witness ==
    /\ mtClicks = <<1, 3>>
    /\ ModalShown
    /\ selectedMisconfig.row.resource = "web-server-01"

====
